---- MODULE Spec2Model ----
(***************************************************************************)
(* A model of blazerod's physics bridge: the binary record decoder and the *)
(* PhysicsScene (PhysicsScene.cpp), the PhysicsWorld constructor,          *)
(* destructor, motion states and collision filter (PhysicsWorld.cpp) and   *)
(* the JNI entry points (binding.cpp).                                     *)
(*                                                                         *)
(* Floats are modelled by small integers.  A rigid-body index is 0-based   *)
(* as in the source; TLA+ sequences are 1-based, so body k is element k+1. *)
(***************************************************************************)
EXTENDS Integers, Sequences, FiniteSets, TLC

\* ------------------------------------------------------------------ bounds
MaxBodies == 2
MaxJoints == 2

\* ------------------------------------------------------- program constants
rigidbody_size == 72
joint_size == 108
FloatsPerTransform == 16
SizeOfFloat == 4

SPHERE == 0
BOX == 1
CAPSULE == 2

FOLLOW_BONE == 0
PHYSICS == 1
PHYSICS_PLUS_BONE == 2

\* btBroadphaseProxy::CollisionFilterGroups, the defaults that
\* btDiscreteDynamicsWorld::addRigidBody(btRigidBody*) gives a proxy.
DefaultFilter == 1
StaticFilter == 2
AllFilter == -1

\* --------------------------------------------------------------- messages
EmptyRigidbodyData == "Empty rigidbody data"
InvalidRigidbodySize == "Invalid rigidbody size"
InvalidJointSize == "Invalid joint size"
SizeMismatch == "Transform buffer size does not match rigidbody count"
InvalidShape == "Invalid shape"
InvalidPhysicsMode == "Invalid physics mode"
InvalidIndex == "Invalid rigidbody index"
NotDirect == "Initial transform buffer is not direct buffer"
NotMultipleOf4 == "Initial transform buffer size is not a multiple of 4"
NoError == ""

\* ---------------------------------------------------------------- helpers
Range(s) == {s[k] : k \in 1..Len(s)}

\* Bit i of a 32-bit two's-complement integer (~x = -x - 1).
BitOf(a, i) ==
    IF a >= 0 THEN (a \div (2 ^ i)) % 2 ELSE 1 - (((-a - 1) \div (2 ^ i)) % 2)

\* The bits set in a & b; a & b != 0 exactly when some bit is set in both.
\* Bit 31 is the sign bit.
BitAnd(a, b) ==
    {i \in 0..30 : BitOf(a, i) = 1 /\ BitOf(b, i) = 1}
    \cup (IF a < 0 /\ b < 0 THEN {31} ELSE {})

\* AllFilter ^ StaticFilter: StaticFilter is one bit of AllFilter.
BitXorAllStatic == AllFilter - StaticFilter

\* ------------------------------------------------- binary record decoder
\* A record in a host buffer is a function from byte offsets to the 4-byte
\* words stored there; only the words the model reads are kept.
RigidBodyOffsets == {0, 4, 8, 12, 52}
JointOffsets == {0, 4, 8}

DecodeRigidBody(rigidbody_data) ==
    [collision_group |-> rigidbody_data[0],
     collision_mask  |-> rigidbody_data[4],
     shape_type      |-> rigidbody_data[8],
     physics_mode    |-> rigidbody_data[12],
     mass            |-> rigidbody_data[52]]

DecodeJoint(joint_data) ==
    [type              |-> joint_data[0],
     rigidbody_a_index |-> joint_data[4],
     rigidbody_b_index |-> joint_data[8]]

Thrown(msg) == [ok |-> FALSE, what |-> msg, value |-> <<>>]
Returned(v) == [ok |-> TRUE, what |-> NoError, value |-> v]

\* DeserializeRigidbodies without the size == 0 check.
DeserializeRigidbodiesNoEmptyCheck(size, data) ==
    IF size % rigidbody_size # 0 THEN Thrown(InvalidRigidbodySize)
    ELSE Returned([i \in 1..(size \div rigidbody_size) |-> DecodeRigidBody(data[i])])

DeserializeRigidbodies(size, data) ==
    IF size = 0 THEN Thrown(EmptyRigidbodyData)
    ELSE IF size % rigidbody_size # 0 THEN Thrown(InvalidRigidbodySize)
    ELSE Returned([i \in 1..(size \div rigidbody_size) |-> DecodeRigidBody(data[i])])

DeserializeJoints(size, data) ==
    IF size % joint_size # 0 THEN Thrown(InvalidJointSize)
    ELSE Returned([i \in 1..(size \div joint_size) |-> DecodeJoint(data[i])])

\* PhysicsScene::PhysicsScene: the member initialisers run in declaration
\* order, rigidbodies first; an exception from either leaves no scene.
NewPhysicsScene(rigidbody_bytes, rigidbody_data, joints_bytes, joints_data) ==
    LET rb == DeserializeRigidbodies(rigidbody_bytes, rigidbody_data)
        jt == DeserializeJoints(joints_bytes, joints_data)
    IN  IF ~rb.ok THEN Thrown(rb.what)
        ELSE IF ~jt.ok THEN Thrown(jt.what)
        ELSE Returned([rigidbodies |-> rb.value, joints |-> jt.value])

\* ------------------------------------------------------------ transforms
\* A btTransform: basis as three rows (m_el[0..2]) and an origin.
\* An OpenGL matrix is 16 floats, column-major.
SetFromOpenGLMatrix(m) ==
    [basis  |-> << <<m[1], m[5], m[9]>>,
                   <<m[2], m[6], m[10]>>,
                   <<m[3], m[7], m[11]>> >>,
     origin |-> <<m[13], m[14], m[15]>>]

\* getOpenGLMatrix writing the basis row by row.
GetOpenGLMatrixRowMajor(t) ==
    << t.basis[1][1], t.basis[1][2], t.basis[1][3], 0,
       t.basis[2][1], t.basis[2][2], t.basis[2][3], 0,
       t.basis[3][1], t.basis[3][2], t.basis[3][3], 0,
       t.origin[1],   t.origin[2],   t.origin[3],   1 >>

GetOpenGLMatrix(t) ==
    << t.basis[1][1], t.basis[2][1], t.basis[3][1], 0,
       t.basis[1][2], t.basis[2][2], t.basis[3][2], 0,
       t.basis[1][3], t.basis[2][3], t.basis[3][3], 0,
       t.origin[1],   t.origin[2],   t.origin[3],   1 >>

\* &buffer[rigidbody_index * 16]: the 16 floats that start there.
SlotOf(buffer, rigidbody_index) ==
    [p \in 1..FloatsPerTransform |-> buffer[rigidbody_index * FloatsPerTransform + p]]

\* A store that ignores rigidbody_index and writes the buffer's first 16 floats.
StoreFirstSlot(buffer, rigidbody_index, m) ==
    [p \in 1..Len(buffer) |-> IF p <= FloatsPerTransform THEN m[p] ELSE buffer[p]]

StoreSlot(buffer, rigidbody_index, m) ==
    [p \in 1..Len(buffer) |->
        IF /\ p > rigidbody_index * FloatsPerTransform
           /\ p <= (rigidbody_index + 1) * FloatsPerTransform
        THEN m[p - rigidbody_index * FloatsPerTransform]
        ELSE buffer[p]]

\* ---------------------------------------------------------- motion states
FollowBoneMotionState == "FollowBoneMotionState"
PhysicsMotionState == "PhysicsMotionState"
PhysicsPlusBoneDynamicMotionState == "PhysicsPlusBoneDynamicMotionState"

\* getWorldTransform is the same in the three classes.
GetWorldTransform(buffer, rigidbody_index) ==
    SetFromOpenGLMatrix(SlotOf(buffer, rigidbody_index))

\* A FollowBone bridge that stores what the engine reports.
FollowBoneStoresTransform(buffer, rigidbody_index, world_transform) ==
    StoreSlot(buffer, rigidbody_index, GetOpenGLMatrix(world_transform))

FollowBoneSetWorldTransform(buffer, rigidbody_index, world_transform) ==
    buffer

PhysicsSetWorldTransform(buffer, rigidbody_index, world_transform) ==
    StoreSlot(buffer, rigidbody_index, GetOpenGLMatrix(world_transform))

\* A PhysicsPlusBone bridge that does not put the original origin back.
PhysicsPlusBoneUnpinned(buffer, rigidbody_index, world_transform) ==
    StoreSlot(buffer, rigidbody_index, GetOpenGLMatrix(world_transform))

PhysicsPlusBoneSetWorldTransform(buffer, rigidbody_index, world_transform) ==
    LET original_transform == SetFromOpenGLMatrix(SlotOf(buffer, rigidbody_index))
        final_transform == [world_transform EXCEPT !.origin = original_transform.origin]
    IN  StoreSlot(buffer, rigidbody_index, GetOpenGLMatrix(final_transform))

\* The virtual call motion_state->setWorldTransform(world_transform).
SetWorldTransform(motion_state, buffer, world_transform) ==
    CASE motion_state.class = FollowBoneMotionState ->
            FollowBoneSetWorldTransform(buffer, motion_state.rigidbody_index, world_transform)
      [] motion_state.class = PhysicsMotionState ->
            PhysicsSetWorldTransform(buffer, motion_state.rigidbody_index, world_transform)
      [] motion_state.class = PhysicsPlusBoneDynamicMotionState ->
            PhysicsPlusBoneSetWorldTransform(buffer, motion_state.rigidbody_index, world_transform)

\* ------------------------------------------------------- collision filter
\* PhysicsFilterCallback::needBroadphaseCollision on two proxies
\* [object, group, mask]; ground_proxy is the ground body's proxy.
NeedBroadphaseCollision(ground_proxy, proxy0, proxy1) ==
    LET is_ground == proxy0.object = ground_proxy.object \/ proxy1.object = ground_proxy.object
        proxy0_collides == BitAnd(proxy0.group, proxy1.mask) # {}
        proxy1_collides == BitAnd(proxy0.mask, proxy1.group) # {}
    IN  (proxy0_collides /\ proxy1_collides) \/ is_ground

\* btDiscreteDynamicsWorld::addRigidBody(body), the one-argument overload the
\* constructor calls: the proxy's group and mask are the engine's defaults,
\* chosen by whether the body is static (mass 0) or kinematic at that moment.
AddRigidBodyProxy(object, mass, kinematic) ==
    LET isDynamic == ~(mass = 0 \/ kinematic)
    IN  [object |-> object,
         group  |-> IF isDynamic THEN DefaultFilter ELSE StaticFilter,
         mask   |-> IF isDynamic THEN AllFilter ELSE BitXorAllStatic]

\* ------------------------------------------------------- world construction
\* Heap objects, named by the member (or vector element) that owns them.
Obj(name, k) == <<name, k>>
Broadphase == Obj("broadphase", 0)
CollisionConfig == Obj("collision_config", 0)
Dispatcher == Obj("dispatcher", 0)
Solver == Obj("solver", 0)
World == Obj("world", 0)
GroundShape == Obj("ground_shape", 0)
GroundMotionState == Obj("ground_motion_state", 0)
GroundRigidBody == Obj("ground_rigidbody", 0)
FilterCallback == Obj("filter_callback", 0)
TransformBuffer == Obj("transform_buffer", 0)
Shape(k) == Obj("shape", k)
MotionState(k) == Obj("motion_state", k)
RigidBodyObj(k) == Obj("rigidbody", k)
JointObj(j) == Obj("joint", j)

\* Lines 72-92: the member initialiser and the engine set-up.
EngineObjects ==
    {TransformBuffer, Broadphase, CollisionConfig, Dispatcher, Solver, World,
     GroundShape, GroundMotionState, GroundRigidBody, FilterCallback}

\* The size check of lines 95-97.
SizeMatches(buffer, rigidbody_count) ==
    Len(buffer) = rigidbody_count * FloatsPerTransform

IsValidShape(shape_type) == shape_type \in {BOX, SPHERE, CAPSULE}

IsValidPhysicsMode(physics_mode) ==
    physics_mode \in {FOLLOW_BONE, PHYSICS, PHYSICS_PLUS_BONE}

\* Line 128: the mass used for the local inertia.
EffectiveMass(rigidbody_item) ==
    IF rigidbody_item.physics_mode = FOLLOW_BONE THEN 0 ELSE rigidbody_item.mass

\* Lines 154-155: the mass handed to btRigidBodyConstructionInfo.
ConstructionInfoMass(rigidbody_item) == rigidbody_item.mass

MotionStateClass(physics_mode) ==
    CASE physics_mode = FOLLOW_BONE -> FollowBoneMotionState
      [] physics_mode = PHYSICS -> PhysicsMotionState
      [] physics_mode = PHYSICS_PLUS_BONE -> PhysicsPlusBoneDynamicMotionState

\* One iteration of the rigid-body loop that does not throw (lines 102-172):
\* the RigidBodyData pushed, with what the engine body was created from.
NewRigidBodyData(rigidbody_item, rigidbody_index) ==
    LET mass == EffectiveMass(rigidbody_item)
    IN  [shape        |-> Shape(rigidbody_index),
         motion_state |-> [class |-> MotionStateClass(rigidbody_item.physics_mode),
                           rigidbody_index |-> rigidbody_index],
         rigidbody    |-> [object |-> RigidBodyObj(rigidbody_index),
                           mass |-> ConstructionInfoMass(rigidbody_item),
                           inertia_computed |-> (mass # 0),
                           kinematic |-> (rigidbody_item.physics_mode = FOLLOW_BONE),
                           proxy |-> AddRigidBodyProxy(RigidBodyObj(rigidbody_index),
                                                       ConstructionInfoMass(rigidbody_item),
                                                       FALSE)]]

\* The index check off by one.
IndexBeyondRange(index, rigidbody_count) == index > rigidbody_count

\* Lines 188 and 193.
IndexOutOfRange(index, rigidbody_count) == index >= rigidbody_count

\* Members are destroyed in reverse declaration order (PhysicsWorld.h):
\* transform_buffer, joints, rigidbodies, filter_callback, the ground, the
\* world, solver, dispatcher, collision_config, broadphase.  locals are the
\* loop's unique_ptrs still owned by the frame that throws.
ReleaseOrder(locals, rbs, jts) ==
    locals
    \o <<TransformBuffer>>
    \o [j \in 1..Len(jts) |-> jts[j].object]
    \o [p \in 1..(3 * Len(rbs)) |->
           LET r == rbs[((p - 1) \div 3) + 1]
           IN  CASE (p - 1) % 3 = 0 -> r.rigidbody.object
                 [] (p - 1) % 3 = 1 -> MotionState(r.motion_state.rigidbody_index)
                 [] (p - 1) % 3 = 2 -> r.shape]
    \o <<FilterCallback, GroundRigidBody, GroundMotionState, GroundShape,
         World, Solver, Dispatcher, CollisionConfig, Broadphase>>

\* Releasing objects in order: an object released while the world still
\* exists and still holds it in its arrays is left dangling there.
RECURSIVE ReleaseAll(_, _, _, _)
ReleaseAll(order, lv, registered, dangling) ==
    IF order = <<>> THEN [live |-> lv, dangling |-> dangling]
    ELSE LET o == Head(order)
         IN  ReleaseAll(Tail(order), lv \ {o}, registered,
                        IF o \in registered /\ World \in lv
                        THEN dangling \cup {o} ELSE dangling)

\* A destructor that removes the bodies before the constraints on them.
DestructorBodiesFirst == <<"ground", "rigidbodies", "joints">>

\* ~PhysicsWorld, lines 246-252: what it removes from the world, in order.
DestructorOrder == <<"ground", "joints", "rigidbodies">>

\* ------------------------------------------------------------ host inputs
\* Records the host puts in its buffers, as words at byte offsets.
WireRigidBody(group, mask, shape, mode, mass) ==
    (0 :> group) @@ (4 :> mask) @@ (8 :> shape) @@ (12 :> mode) @@ (52 :> mass)

WireJoint(a, b) == (0 :> 0) @@ (4 :> a) @@ (8 :> b)

InvalidEnumValue == CAPSULE + 1

WireRigidBodies ==
    {WireRigidBody(1, 2, BOX, FOLLOW_BONE, 1),
     WireRigidBody(4, 8, SPHERE, PHYSICS, 1),
     WireRigidBody(3, 3, CAPSULE, PHYSICS_PLUS_BONE, 0),
     WireRigidBody(1, 1, InvalidEnumValue, PHYSICS, 1),
     WireRigidBody(1, 1, SPHERE, InvalidEnumValue, 1)}

WireJoints ==
    {WireJoint(0, 0), WireJoint(1, 0), WireJoint(MaxBodies, 0), WireJoint(0, MaxBodies)}

SeqsOfLen(S, n) == [1..n -> S]

NullBuffer == [kind |-> "null", size |-> 0, data |-> <<>>]
HeapBuffer == [kind |-> "heap", size |-> 0, data |-> <<>>]
DirectBuffer(size, data) == [kind |-> "direct", size |-> size, data |-> data]

RigidbodyBufferSizes ==
    {k * rigidbody_size : k \in 0..MaxBodies} \cup {rigidbody_size + SizeOfFloat}

JointBufferSizes ==
    {k * joint_size : k \in 0..MaxJoints} \cup {joint_size + SizeOfFloat}

RigidbodyBuffers ==
    {NullBuffer, HeapBuffer} \cup
    UNION {{DirectBuffer(size, data) : data \in SeqsOfLen(WireRigidBodies, size \div rigidbody_size)}
           : size \in RigidbodyBufferSizes}

JointBuffers ==
    {NullBuffer, HeapBuffer} \cup
    UNION {{DirectBuffer(size, data) : data \in SeqsOfLen(WireJoints, size \div joint_size)}
           : size \in JointBufferSizes}

\* The host's pose for body k, as an OpenGL matrix.
HostMatrix(k) ==
    << 1, 0, 0, 0,
       0, 1, 0, 0,
       0, 0, 1, 0,
       10 * (k + 1), 20, 30, 1 >>

\* The first count floats of the host's initial transform region.
HostFloats(count) ==
    [p \in 1..count |->
        HostMatrix((p - 1) \div FloatsPerTransform)[((p - 1) % FloatsPerTransform) + 1]]

\* Byte sizes of the initial transform region offered for n bodies: the right
\* size, one body too many, and each of the two plus half a float.
InitialTransformSizes(n) ==
    LET right == n * FloatsPerTransform * SizeOfFloat
        more  == (n + 1) * FloatsPerTransform * SizeOfFloat
    IN  {right, right + (SizeOfFloat \div 2), more, more + (SizeOfFloat \div 2)}

InitialTransforms(n) ==
    {HeapBuffer} \cup {DirectBuffer(size, <<>>) : size \in InitialTransformSizes(n)}

\* JNIEnv::GetDirectBufferCapacity.
GetDirectBufferCapacity(buffer) == IF buffer.kind = "direct" THEN buffer.size ELSE -1

\* ------------------------------------------------------------------ state
VARIABLES
    pc,               \* where the host's session is
    input,            \* the two buffers given to createPhysicsScene
    scene,            \* the PhysicsScene created, NoScene if none
    pending,          \* messages of the ThrowNew calls of the last entry call
    thrown,           \* what() of the exception the last constructor threw
    transform_buffer, \* PhysicsWorld::transform_buffer
    rigidbodies,      \* PhysicsWorld::rigidbodies
    joints,           \* PhysicsWorld::joints
    worldBodies,      \* bodies in the dynamics world's arrays
    worldConstraints, \* constraints in the dynamics world's arrays
    created,          \* objects the constructor has created
    live,             \* objects not yet released
    dangling,         \* objects released while the live world still held them
    bi,               \* rigid bodies the constructor has been through
    ji,               \* joints the constructor has been through
    dtor,             \* where ~PhysicsWorld is: [phase, i]
    hostBuffer,       \* the ByteBuffer getTransformBuffer last returned
    hostView,         \* what the host last read through hostBuffer
    steps,            \* Step() calls made on the world
    callbacks,        \* motion-state calls the engine made in the current Step()
    externalBuffer,   \* transform_buffer as the host last left it
    stepStart,        \* transform_buffer when the last Step() began
    lastWritten,      \* per body, the last transform the engine wrote in that Step()
    lastRead          \* the last transform the engine read: [rigidbody_index, transform]

vars == <<pc, input, scene, pending, thrown, transform_buffer, rigidbodies, joints,
          worldBodies, worldConstraints, created, live, dangling, bi, ji, dtor,
          hostBuffer, hostView, steps, callbacks, externalBuffer, stepStart,
          lastWritten, lastRead>>

sceneVars == <<input, scene>>
worldVars == <<rigidbodies, joints, worldBodies, worldConstraints>>
heapVars == <<created, live, dangling>>
hostVars == <<hostBuffer, hostView>>
stepVars == <<steps, callbacks, externalBuffer, stepStart, lastWritten, lastRead>>

NoScene == [rigidbodies |-> <<>>, joints |-> <<>>]
NoInput == [rigidbodies |-> NullBuffer, joints |-> NullBuffer]
NoBuffer == [storage |-> Obj("none", 0), size |-> 0, contents |-> <<>>]
LocalCopy == Obj("getTransformBuffer.transform_buffer", 0)
Unread == <<"unread">>
Garbage == <<"garbage">>
NotInDestructor == [phase |-> 0, i |-> 0]
NoTransform == [basis |-> <<>>, origin |-> <<>>]
NoRead == [rigidbody_index |-> -1, transform |-> NoTransform]

Init ==
    /\ pc = "start"
    /\ input = NoInput
    /\ scene = NoScene
    /\ pending = <<>>
    /\ thrown = NoError
    /\ transform_buffer = <<>>
    /\ rigidbodies = <<>>
    /\ joints = <<>>
    /\ worldBodies = {}
    /\ worldConstraints = {}
    /\ created = {}
    /\ live = {}
    /\ dangling = {}
    /\ bi = 0
    /\ ji = 0
    /\ dtor = NotInDestructor
    /\ hostBuffer = NoBuffer
    /\ hostView = Unread
    /\ steps = 0
    /\ callbacks = 0
    /\ externalBuffer = <<>>
    /\ stepStart = <<>>
    /\ lastWritten = <<>>
    /\ lastRead = NoRead

\* ---------------------------------------------------- createPhysicsScene
\* binding.cpp lines 16-50: the scene created and the exceptions raised.
CreatePhysicsSceneResult(rb, jt) ==
    IF rb.kind = "null" THEN Thrown("Rigidbodies cannot be null")
    ELSE IF jt.kind = "null" THEN Thrown("Joints cannot be null")
    ELSE IF GetDirectBufferCapacity(rb) = -1
         THEN Thrown("Rigidbodies buffer is not direct buffer")
    ELSE IF GetDirectBufferCapacity(jt) = -1
         THEN Thrown("Joints buffer is not direct buffer")
    ELSE NewPhysicsScene(GetDirectBufferCapacity(rb), rb.data,
                         GetDirectBufferCapacity(jt), jt.data)

CreatePhysicsScene ==
    /\ pc = "start"
    /\ \E rb \in RigidbodyBuffers, jt \in JointBuffers :
         LET r == CreatePhysicsSceneResult(rb, jt)
         IN  /\ input' = [rigidbodies |-> rb, joints |-> jt]
             /\ scene' = IF r.ok THEN r.value ELSE NoScene
             /\ pending' = IF r.ok THEN <<>> ELSE <<r.what>>
             /\ pc' = IF r.ok THEN "scene_ok" ELSE "scene_failed"
    /\ UNCHANGED <<thrown, transform_buffer, worldVars, heapVars, bi, ji, dtor, hostVars, stepVars>>

\* ---------------------------------------------------- createPhysicsWorld
\* binding.cpp lines 70-85 and PhysicsWorld.cpp lines 71-92: the checks of
\* the entry point, then the constructor up to the ground plane.
CreatePhysicsWorld ==
    /\ pc = "scene_ok"
    /\ \E initial_transform \in InitialTransforms(Len(scene.rigidbodies)) :
         LET initial_transform_size == GetDirectBufferCapacity(initial_transform)
             initial_transform_count == initial_transform_size \div SizeOfFloat
         IN  IF initial_transform_size = -1
             THEN /\ pending' = <<NotDirect>>
                  /\ pc' = "world_rejected"
                  /\ UNCHANGED <<transform_buffer, externalBuffer, worldBodies, created, live>>
             ELSE /\ pending' = IF initial_transform_size % SizeOfFloat # 0
                                THEN <<NotMultipleOf4>> ELSE <<>>
                  /\ transform_buffer' = HostFloats(initial_transform_count)
                  /\ externalBuffer' = HostFloats(initial_transform_count)
                  /\ created' = EngineObjects
                  /\ live' = EngineObjects
                  /\ worldBodies' = {GroundRigidBody}
                  /\ pc' = "ctor_validate"
    /\ UNCHANGED <<sceneVars, thrown, rigidbodies, joints, worldConstraints, dangling,
                   bi, ji, dtor, hostVars, steps, callbacks, stepStart, lastWritten,
                   lastRead>>

\* An exception leaves the constructor: the frame's locals and then the
\* members are released (~PhysicsWorld does not run), and the entry point's
\* catch raises the host exception.  Releasing a body the world still holds
\* leaves the world's destructor with a dangling pointer: undefined behaviour,
\* after which the call either returns or the process dies.
CtorThrows(msg, locals) ==
    LET rel == ReleaseAll(ReleaseOrder(locals, rigidbodies, joints),
                          live \cup Range(locals),
                          worldBodies \cup worldConstraints, {})
    IN  /\ created' = created \cup Range(locals)
        /\ live' = rel.live
        /\ dangling' = rel.dangling
        /\ thrown' = msg
        /\ \E outcome \in (IF rel.dangling = {} THEN {"world_failed"}
                           ELSE {"world_failed", "crashed"}) :
             /\ pc' = outcome
             /\ pending' = IF outcome = "crashed" THEN pending ELSE Append(pending, msg)
        /\ UNCHANGED <<sceneVars, transform_buffer, worldVars, bi, ji, dtor, hostVars, stepVars>>

\* PhysicsWorld.cpp lines 94-100.
CtorValidate ==
    /\ pc = "ctor_validate"
    /\ IF ~SizeMatches(transform_buffer, Len(scene.rigidbodies))
       THEN CtorThrows(SizeMismatch, <<>>)
       ELSE /\ pc' = "ctor_loop"
            /\ UNCHANGED <<sceneVars, pending, thrown, transform_buffer, worldVars,
                           heapVars, bi, ji, dtor, hostVars, stepVars>>

\* PhysicsWorld.cpp lines 101-173, one iteration.
CtorRigidBody ==
    /\ pc = "ctor_loop"
    /\ bi < Len(scene.rigidbodies)
    /\ LET rigidbody_item == scene.rigidbodies[bi + 1]
           rigidbody_data == NewRigidBodyData(rigidbody_item, bi)
           objects == {Shape(bi), MotionState(bi), RigidBodyObj(bi)}
       IN  IF ~IsValidShape(rigidbody_item.shape_type)
           THEN CtorThrows(InvalidShape, <<>>)
           ELSE IF ~IsValidPhysicsMode(rigidbody_item.physics_mode)
           THEN CtorThrows(InvalidPhysicsMode, <<Shape(bi)>>)
           ELSE /\ rigidbodies' = Append(rigidbodies, rigidbody_data)
                /\ worldBodies' = worldBodies \cup {RigidBodyObj(bi)}
                /\ created' = created \cup objects
                /\ live' = live \cup objects
                /\ bi' = bi + 1
                /\ UNCHANGED <<sceneVars, pending, thrown, pc, transform_buffer, joints,
                               worldConstraints, dangling, ji, dtor, hostVars, stepVars>>

\* PhysicsWorld.cpp lines 178-242, one iteration.
CtorJoint ==
    /\ pc = "ctor_loop"
    /\ bi = Len(scene.rigidbodies)
    /\ ji < Len(scene.joints)
    /\ LET joint_item == scene.joints[ji + 1]
       IN  IF \/ IndexOutOfRange(joint_item.rigidbody_a_index, Len(rigidbodies))
              \/ IndexOutOfRange(joint_item.rigidbody_b_index, Len(rigidbodies))
           THEN CtorThrows(InvalidIndex, <<>>)
           ELSE /\ joints' = Append(joints, [object |-> JointObj(ji),
                                             rigidbody_a |-> joint_item.rigidbody_a_index,
                                             rigidbody_b |-> joint_item.rigidbody_b_index])
                /\ worldConstraints' = worldConstraints \cup {JointObj(ji)}
                /\ created' = created \cup {JointObj(ji)}
                /\ live' = live \cup {JointObj(ji)}
                /\ ji' = ji + 1
                /\ UNCHANGED <<sceneVars, pending, thrown, pc, transform_buffer,
                               rigidbodies, worldBodies, dangling, bi, dtor, hostVars, stepVars>>

\* The constructor returns and createPhysicsWorld returns the pointer.
CtorReturn ==
    /\ pc = "ctor_loop"
    /\ bi = Len(scene.rigidbodies)
    /\ ji = Len(scene.joints)
    /\ pc' = "world_ok"
    /\ UNCHANGED <<sceneVars, pending, thrown, transform_buffer, worldVars, heapVars,
                   bi, ji, dtor, hostVars, stepVars>>

\* ---------------------------------------------------- getTransformBuffer
\* binding.cpp lines 101-103: `auto transform_buffer = ...GetTransformBuffer()`
\* copies the vector into a local; the ByteBuffer wraps the local's storage,
\* which is released when the function returns.
GetTransformBufferResult(world_buffer) ==
    [storage  |-> LocalCopy,
     size     |-> Len(world_buffer) * SizeOfFloat,
     contents |-> world_buffer]

GetTransformBuffer ==
    /\ pc = "world_ok"
    /\ hostBuffer' = GetTransformBufferResult(transform_buffer)
    /\ hostView' = Unread
    /\ UNCHANGED <<pc, sceneVars, pending, thrown, transform_buffer, worldVars, heapVars,
                   bi, ji, dtor, stepVars>>

\* The host reads the ByteBuffer.  Reading released storage is undefined:
\* the floats are the stale copy or whatever has taken their place.
HostRead ==
    /\ pc = "world_ok"
    /\ hostBuffer # NoBuffer
    /\ hostView' \in (IF hostBuffer.storage = TransformBuffer /\ TransformBuffer \in live
                      THEN {transform_buffer}
                      ELSE {hostBuffer.contents, Garbage})
    /\ UNCHANGED <<pc, sceneVars, pending, thrown, transform_buffer, worldVars, heapVars,
                   bi, ji, dtor, hostBuffer, stepVars>>

\* ---------------------------------------------------- destroyPhysicsWorld
PhaseCount(phase) ==
    CASE phase = "ground" -> 1
      [] phase = "joints" -> Len(joints)
      [] phase = "rigidbodies" -> Len(rigidbodies)

\* The next removal at or after position d, skipping loops that are done.
RECURSIVE NextRemoval(_)
NextRemoval(d) ==
    IF d.phase > Len(DestructorOrder) THEN d
    ELSE IF d.i < PhaseCount(DestructorOrder[d.phase]) THEN d
    ELSE NextRemoval([phase |-> d.phase + 1, i |-> 0])

InDestructorAt(phase) ==
    /\ pc = "dtor"
    /\ dtor.phase <= Len(DestructorOrder)
    /\ DestructorOrder[dtor.phase] = phase

\* binding.cpp line 125: delete runs ~PhysicsWorld, then releases the members.
DestroyPhysicsWorld ==
    /\ pc = "world_ok"
    /\ pc' = "dtor"
    /\ dtor' = NextRemoval([phase |-> 1, i |-> 0])
    /\ pending' = <<>>
    /\ UNCHANGED <<sceneVars, thrown, transform_buffer, worldVars, heapVars, bi, ji, hostVars, stepVars>>

\* PhysicsWorld.cpp line 246.
DtorRemoveGround ==
    /\ InDestructorAt("ground")
    /\ worldBodies' = worldBodies \ {GroundRigidBody}
    /\ dtor' = NextRemoval([dtor EXCEPT !.i = @ + 1])
    /\ UNCHANGED <<pc, sceneVars, pending, thrown, transform_buffer, rigidbodies, joints,
                   worldConstraints, heapVars, bi, ji, hostVars, stepVars>>

\* PhysicsWorld.cpp lines 247-249, one iteration.
DtorRemoveConstraint ==
    /\ InDestructorAt("joints")
    /\ worldConstraints' = worldConstraints \ {joints[dtor.i + 1].object}
    /\ dtor' = NextRemoval([dtor EXCEPT !.i = @ + 1])
    /\ UNCHANGED <<pc, sceneVars, pending, thrown, transform_buffer, rigidbodies, joints,
                   worldBodies, heapVars, bi, ji, hostVars, stepVars>>

\* PhysicsWorld.cpp lines 250-252, one iteration.
DtorRemoveRigidBody ==
    /\ InDestructorAt("rigidbodies")
    /\ worldBodies' = worldBodies \ {rigidbodies[dtor.i + 1].rigidbody.object}
    /\ dtor' = NextRemoval([dtor EXCEPT !.i = @ + 1])
    /\ UNCHANGED <<pc, sceneVars, pending, thrown, transform_buffer, rigidbodies, joints,
                   worldConstraints, heapVars, bi, ji, hostVars, stepVars>>

\* The destructor body is done: the members are released.
DtorReleaseMembers ==
    /\ pc = "dtor"
    /\ dtor.phase > Len(DestructorOrder)
    /\ LET rel == ReleaseAll(ReleaseOrder(<<>>, rigidbodies, joints), live,
                             worldBodies \cup worldConstraints, {})
       IN  /\ live' = rel.live
           /\ dangling' = rel.dangling
           /\ pc' \in (IF rel.dangling = {} THEN {"destroyed"} ELSE {"destroyed", "crashed"})
    /\ UNCHANGED <<sceneVars, pending, thrown, transform_buffer, worldVars, created,
                   bi, ji, dtor, hostVars, stepVars>>

\* ------------------------------------------------------- stepPhysicsWorld
MaxSteps == 2
MaxCallbacks == 2

\* Transforms the engine may report for a body.
EngineTransforms ==
    {[basis  |-> << <<0, -1, 0>>, <<1, 0, 0>>, <<0, 0, 1>> >>, origin |-> <<7, 8, 9>>],
     [basis  |-> << <<1, 0, 0>>, <<0, 0, -1>>, <<0, 1, 0>> >>, origin |-> <<4, 5, 6>>]}

\* The next animated pose the host writes for body k.
HostPose(k) ==
    << 0, 0, 1, 0,
       0, 1, 0, 0,
       -1, 0, 0, 0,
       10 * (k + 1) + 1, 21, 31, 1 >>

BodyIndexes == 0..(Len(rigidbodies) - 1)

\* binding.cpp lines 111-115 and PhysicsWorld.cpp lines 255-257: Step()
\* enters btDiscreteDynamicsWorld::stepSimulation, which calls the motion
\* states any number of times before it returns.
StepBegin ==
    /\ pc = "world_ok"
    /\ steps < MaxSteps
    /\ pc' = "stepping"
    /\ steps' = steps + 1
    /\ callbacks' = 0
    /\ stepStart' = transform_buffer
    /\ lastWritten' = [k \in 1..Len(rigidbodies) |-> NoTransform]
    /\ UNCHANGED <<sceneVars, pending, thrown, transform_buffer, worldVars, heapVars,
                   bi, ji, dtor, hostVars, externalBuffer, lastRead>>

\* The engine calls getWorldTransform on body k's motion state.
EngineReads ==
    /\ pc = "stepping"
    /\ callbacks < MaxCallbacks
    /\ \E k \in BodyIndexes :
         lastRead' = [rigidbody_index |-> k,
                      transform |-> GetWorldTransform(transform_buffer,
                                       rigidbodies[k + 1].motion_state.rigidbody_index)]
    /\ callbacks' = callbacks + 1
    /\ UNCHANGED <<pc, sceneVars, pending, thrown, transform_buffer, worldVars, heapVars,
                   bi, ji, dtor, hostVars, steps, externalBuffer, stepStart, lastWritten>>

\* The engine calls setWorldTransform on body k's motion state.
EngineWrites ==
    /\ pc = "stepping"
    /\ callbacks < MaxCallbacks
    /\ \E k \in BodyIndexes, world_transform \in EngineTransforms :
         /\ transform_buffer' = SetWorldTransform(rigidbodies[k + 1].motion_state,
                                                  transform_buffer, world_transform)
         /\ lastWritten' = [lastWritten EXCEPT ![k + 1] = world_transform]
    /\ callbacks' = callbacks + 1
    /\ UNCHANGED <<pc, sceneVars, pending, thrown, worldVars, heapVars,
                   bi, ji, dtor, hostVars, steps, externalBuffer, stepStart, lastRead>>

\* stepSimulation returns; the transform it last read goes with its frame.
StepEnd ==
    /\ pc = "stepping"
    /\ pc' = "world_ok"
    /\ lastRead' = NoRead
    /\ UNCHANGED <<sceneVars, pending, thrown, transform_buffer, worldVars, heapVars,
                   bi, ji, dtor, hostVars, steps, callbacks, externalBuffer, stepStart,
                   lastWritten>>

\* The next animated pose of every body, written over a buffer.
RECURSIVE WithHostPose(_, _)
WithHostPose(buffer, n) ==
    IF n = 0 THEN buffer
    ELSE StoreSlot(WithHostPose(buffer, n - 1), n - 1, HostPose(n - 1))

\* Between steps the host writes the next pose of the bodies through the
\* ByteBuffer it was given.  The buffer's storage is released (see
\* GetTransformBuffer), so the write is undefined: it is lost, or it lands in
\* the world's transform buffer.
HostWrite ==
    /\ pc = "world_ok"
    /\ hostBuffer # NoBuffer
    /\ \E lands \in BOOLEAN :
         IF lands \/ (hostBuffer.storage = TransformBuffer /\ TransformBuffer \in live)
         THEN /\ transform_buffer' = WithHostPose(transform_buffer, Len(rigidbodies))
              /\ externalBuffer' = WithHostPose(transform_buffer, Len(rigidbodies))
              /\ stepStart' = <<>>
              /\ lastWritten' = <<>>
         ELSE UNCHANGED <<transform_buffer, externalBuffer, stepStart, lastWritten>>
    /\ UNCHANGED <<pc, sceneVars, pending, thrown, worldVars, heapVars,
                   bi, ji, dtor, hostVars, steps, callbacks, lastRead>>

\* The world a constructor that returned has built from the scene.
ConstructedWorld ==
    /\ Len(transform_buffer) = FloatsPerTransform * Len(scene.rigidbodies)
    /\ rigidbodies = [k \in 1..Len(scene.rigidbodies) |->
                         NewRigidBodyData(scene.rigidbodies[k], k - 1)]
    /\ joints = [j \in 1..Len(scene.joints) |->
                    [object |-> JointObj(j - 1),
                     rigidbody_a |-> scene.joints[j].rigidbody_a_index,
                     rigidbody_b |-> scene.joints[j].rigidbody_b_index]]
    /\ worldBodies = {GroundRigidBody} \cup {RigidBodyObj(k - 1) : k \in 1..Len(scene.rigidbodies)}
    /\ worldConstraints = {JointObj(j - 1) : j \in 1..Len(scene.joints)}
    /\ live = EngineObjects
              \cup UNION {{Shape(k - 1), MotionState(k - 1), RigidBodyObj(k - 1)}
                          : k \in 1..Len(scene.rigidbodies)}
              \cup {JointObj(j - 1) : j \in 1..Len(scene.joints)}
    /\ created = live
    /\ dangling = {}
    /\ bi = Len(scene.rigidbodies)
    /\ ji = Len(scene.joints)
    /\ thrown = NoError
    /\ dtor = NotInDestructor

\* Every world the constructor returns is such a world.
ConstructorBuildsConstructedWorld == pc = "world_ok" => ConstructedWorld

\* The worlds that are stepped: createPhysicsScene, createPhysicsWorld and
\* getTransformBuffer have returned, for a scene of valid rigid bodies without
\* joints and an initial transform region of the right size.
InitStep ==
    /\ pc = "world_ok"
    /\ input \in {[rigidbodies |-> rb, joints |-> DirectBuffer(0, <<>>)] :
                    rb \in {b \in RigidbodyBuffers :
                              /\ CreatePhysicsSceneResult(b, DirectBuffer(0, <<>>)).ok
                              /\ \A i \in 1..Len(b.data) :
                                    /\ IsValidShape(DecodeRigidBody(b.data[i]).shape_type)
                                    /\ IsValidPhysicsMode(DecodeRigidBody(b.data[i]).physics_mode)}}
    /\ scene = CreatePhysicsSceneResult(input.rigidbodies, input.joints).value
    /\ pending = <<>>
    /\ transform_buffer = HostFloats(FloatsPerTransform * Len(scene.rigidbodies))
    /\ externalBuffer = transform_buffer
    /\ rigidbodies = [k \in 1..Len(scene.rigidbodies) |->
                         NewRigidBodyData(scene.rigidbodies[k], k - 1)]
    /\ joints = <<>>
    /\ worldBodies = {GroundRigidBody} \cup {RigidBodyObj(k - 1) : k \in 1..Len(scene.rigidbodies)}
    /\ worldConstraints = {}
    /\ live = EngineObjects
              \cup UNION {{Shape(k - 1), MotionState(k - 1), RigidBodyObj(k - 1)}
                          : k \in 1..Len(scene.rigidbodies)}
    /\ created = live
    /\ dangling = {}
    /\ bi = Len(scene.rigidbodies)
    /\ ji = 0
    /\ thrown = NoError
    /\ dtor = NotInDestructor
    /\ hostBuffer = GetTransformBufferResult(transform_buffer)
    /\ hostView = Unread
    /\ steps = 0
    /\ callbacks = 0
    /\ stepStart = <<>>
    /\ lastWritten = <<>>
    /\ lastRead = NoRead

NextStep ==
    \/ StepBegin
    \/ EngineReads
    \/ EngineWrites
    \/ StepEnd
    \/ HostWrite

SpecStep == InitStep /\ [][NextStep]_vars

Next ==
    \/ CreatePhysicsScene
    \/ CreatePhysicsWorld
    \/ CtorValidate
    \/ CtorRigidBody
    \/ CtorJoint
    \/ CtorReturn
    \/ GetTransformBuffer
    \/ HostRead
    \/ DestroyPhysicsWorld
    \/ DtorRemoveGround
    \/ DtorRemoveConstraint
    \/ DtorRemoveRigidBody
    \/ DtorReleaseMembers

Spec == Init /\ [][Next]_vars

\* ================================================================ claims
SceneBodyCount == Len(scene.rigidbodies)
SceneBodyObjects == {RigidBodyObj(k) : k \in 0..(MaxBodies + 1)}
ConstraintObjects == {JointObj(j) : j \in 0..(MaxJoints + 1)}
Registered == worldBodies \cup worldConstraints
ConstructionFailed == pc = "world_failed"

\* C1: when construction fails while building bodies or joints, no scene rigid
\* body and no constraint that construction added is still registered in the
\* simulation when the error is reported, and everything construction created
\* has been released.
C1_AtomicConstruction ==
    (ConstructionFailed /\ thrown \in {InvalidShape, InvalidPhysicsMode, InvalidIndex})
        => /\ created \cap SceneBodyObjects \cap worldBodies = {}
           /\ created \cap ConstraintObjects \cap worldConstraints = {}
           /\ created \cap live = {}

InTeardown == pc \in {"dtor", "destroyed"}
GroundRemoved == GroundRigidBody \notin worldBodies
SomeSceneBodyRemoved ==
    \E k \in 1..Len(rigidbodies) : rigidbodies[k].rigidbody.object \notin worldBodies
AllSceneBodiesRemoved ==
    \A k \in 1..Len(rigidbodies) : rigidbodies[k].rigidbody.object \notin worldBodies
SomeConstraintRemoved ==
    \E j \in 1..Len(joints) : joints[j].object \notin worldConstraints
AllConstraintsRemoved ==
    \A j \in 1..Len(joints) : joints[j].object \notin worldConstraints
SomethingReleased == created \ live # {}

\* C2 as stated: in a teardown every constraint is removed before any rigid
\* body, every scene rigid body before the ground plane body, and all
\* removals happen before engine resources are released.
C2_TeardownOrder ==
    InTeardown =>
        /\ SomeSceneBodyRemoved => AllConstraintsRemoved
        /\ GroundRemoved => AllSceneBodiesRemoved
        /\ SomethingReleased => Registered = {}

\* C2 as amended: the ground plane body is removed first, then every
\* constraint before any scene rigid body, and all removals happen before
\* engine resources are released.
C2_TeardownOrderGroundFirst ==
    InTeardown =>
        /\ (SomeConstraintRemoved \/ SomeSceneBodyRemoved) => GroundRemoved
        /\ SomeSceneBodyRemoved => AllConstraintsRemoved
        /\ SomethingReleased => Registered = {}

C2_Witness ==
    /\ pc = "dtor"
    /\ Len(joints) >= 1
    /\ AllConstraintsRemoved
    /\ SomeSceneBodyRemoved
    /\ ~AllSceneBodiesRemoved

\* C3: the engine rigid body of a FollowBone record is created with mass 0
\* whatever mass was decoded, a body of any other mode with the decoded mass,
\* and the local inertia is computed only when that effective mass is nonzero.
C3_FollowBoneMassZero ==
    \A k \in 1..Len(rigidbodies) :
        LET item == scene.rigidbodies[k]
            effective == IF item.physics_mode = 0 THEN 0 ELSE item.mass
        IN  /\ rigidbodies[k].rigidbody.mass = effective
            /\ rigidbodies[k].rigidbody.inertia_computed <=> (effective # 0)

GroundProxy == AddRigidBodyProxy(GroundRigidBody, 0, FALSE)

\* C6: the filter allows two scene bodies to collide iff the collision_group
\* decoded for each intersects the collision_mask decoded for the other, and
\* always allows a scene body to collide with the ground.
C6_CollisionFilter ==
    \A a \in 1..Len(rigidbodies), b \in 1..Len(rigidbodies) :
        LET pa == rigidbodies[a].rigidbody.proxy
            pb == rigidbodies[b].rigidbody.proxy
            ia == scene.rigidbodies[a]
            ib == scene.rigidbodies[b]
        IN  /\ NeedBroadphaseCollision(GroundProxy, pa, GroundProxy)
            /\ NeedBroadphaseCollision(GroundProxy, GroundProxy, pa)
            /\ a # b =>
                 (NeedBroadphaseCollision(GroundProxy, pa, pb)
                    <=> /\ BitAnd(ia.collision_group, ib.collision_mask) # {}
                        /\ BitAnd(ib.collision_group, ia.collision_mask) # {})

IsMode(k, physics_mode) == scene.rigidbodies[k].physics_mode = physics_mode
EngineWroteTo(k) == lastWritten # <<>> /\ lastWritten[k] # NoTransform

\* C4: no Step(), whatever motion-state calls the engine makes in it, changes
\* the 16 floats of a FollowBone body: they are what the host last left there,
\* and that is the transform the engine reads for the body.
C4_FollowBoneInert ==
    \A k \in 1..Len(rigidbodies) :
        IsMode(k, 0) =>
            /\ SlotOf(transform_buffer, k - 1) = SlotOf(externalBuffer, k - 1)
            /\ lastRead.rigidbody_index = k - 1 =>
                  lastRead.transform = SetFromOpenGLMatrix(SlotOf(externalBuffer, k - 1))

C4_Witness ==
    /\ pc = "world_ok"
    /\ steps = 2
    /\ \E k \in 1..Len(rigidbodies) :
         /\ IsMode(k, 0)
         /\ EngineWroteTo(k)
         /\ SlotOf(externalBuffer, k - 1) = HostPose(k - 1)

\* C5: during and after a Step() the translation in a PhysicsPlusBone body's
\* slot is the translation that was there when the Step() began, and once the
\* engine has written the body the rotation there is the rotation of the last
\* transform it wrote.
C5_PhysicsPlusBonePinned ==
    stepStart # <<>> =>
        \A k \in 1..Len(rigidbodies) :
            IsMode(k, 2) =>
                LET now == SlotOf(transform_buffer, k - 1)
                    before == SlotOf(stepStart, k - 1)
                IN  /\ <<now[13], now[14], now[15]>> = <<before[13], before[14], before[15]>>
                    /\ EngineWroteTo(k) =>
                         SetFromOpenGLMatrix(now).basis = lastWritten[k].basis

C5_Witness ==
    /\ pc = "world_ok"
    /\ callbacks >= 2
    /\ \E k \in 1..Len(rigidbodies) :
         /\ IsMode(k, 2)
         /\ EngineWroteTo(k)
         /\ lastWritten[k].origin # SetFromOpenGLMatrix(SlotOf(transform_buffer, k - 1)).origin
         /\ SetFromOpenGLMatrix(SlotOf(transform_buffer, k - 1)).basis
              # SetFromOpenGLMatrix(SlotOf(stepStart, k - 1)).basis

ValidationPending == pc = "ctor_validate"
ValidationDone ==
    pc \in {"ctor_loop", "world_ok", "world_failed", "crashed", "dtor", "destroyed"}
BufferLengthRight == Len(transform_buffer) = 16 * SceneBodyCount
SizeCheckOutcome == ValidationDone => (thrown = SizeMismatch <=> ~BufferLengthRight)

\* C7: the length check is made before the ground plane or any rigid body is
\* created or added; it fails exactly when the length differs from
\* 16 * (number of scene rigid bodies).
C7_ValidatesFirst ==
    /\ ValidationPending =>
          /\ GroundRigidBody \notin created
          /\ worldBodies = {}
          /\ created \cap SceneBodyObjects = {}
    /\ SizeCheckOutcome

\* What the constructor does instead: the length check is made after the
\* ground plane is created and added, and before any scene rigid body is.
ValidationOrderInCode ==
    /\ ValidationPending =>
          /\ worldBodies = {GroundRigidBody}
          /\ created \cap SceneBodyObjects = {}
          /\ rigidbodies = <<>>
    /\ thrown = SizeMismatch => created \cap SceneBodyObjects = {}
    /\ SizeCheckOutcome

\* C8: the buffer getTransformBuffer hands to the host is the World's own
\* live Transform Buffer: its storage is the World's and is not released
\* while the World exists, and what the host reads there is the World's
\* current transforms.
C8_LiveTransformBuffer ==
    (pc = "world_ok" /\ hostBuffer # NoBuffer) =>
        /\ hostBuffer.storage = TransformBuffer
        /\ hostBuffer.storage \in live
        /\ hostView # Unread => hostView = transform_buffer

JointInRange(item) ==
    item.rigidbody_a_index < SceneBodyCount /\ item.rigidbody_b_index < SceneBodyCount

\* C9: joints are taken in order; construction fails with the invalid-index
\* error at the first joint with rigidbody_a_index or rigidbody_b_index >= the
\* number of scene rigid bodies, no constraint is created for that joint, and
\* a joint whose two indices are in range never raises the error.
C9_JointIndexCheck ==
    /\ Len(joints) = ji
    /\ \A j \in 1..Len(joints) :
          /\ JointInRange(scene.joints[j])
          /\ joints[j].object = JointObj(j - 1)
          /\ joints[j].rigidbody_a = scene.joints[j].rigidbody_a_index
          /\ joints[j].rigidbody_b = scene.joints[j].rigidbody_b_index
    /\ thrown = InvalidIndex =>
          /\ ~JointInRange(scene.joints[ji + 1])
          /\ JointObj(ji) \notin created
    /\ (pc = "world_ok" \/ (pc = "ctor_loop" /\ ji = Len(scene.joints))) =>
          \A j \in 1..Len(scene.joints) : JointInRange(scene.joints[j])

C9_Witness ==
    /\ ConstructionFailed
    /\ thrown = InvalidIndex
    /\ ji >= 1
    /\ scene.joints[ji + 1].rigidbody_a_index < SceneBodyCount

BothDirect == input.rigidbodies.kind = "direct" /\ input.joints.kind = "direct"

\* C10: decoding accepts a rigid-body buffer iff its length is a nonzero
\* multiple of 72 and a joint buffer iff its length is a multiple of 108;
\* otherwise no scene results; on success the scene holds length/72 rigid
\* bodies and length/108 joints, decoded in input order.
C10_DecodeSizes ==
    (pc # "start" /\ BothDirect) =>
        LET rb == input.rigidbodies
            jt == input.joints
            accepted == rb.size # 0 /\ rb.size % 72 = 0 /\ jt.size % 108 = 0
        IN  /\ accepted <=> pc # "scene_failed"
            /\ ~accepted => scene = NoScene /\ Len(pending) = 1
            /\ accepted =>
                 /\ Len(scene.rigidbodies) = rb.size \div 72
                 /\ Len(scene.joints) = jt.size \div 108
                 /\ \A i \in 1..Len(scene.rigidbodies) :
                      /\ scene.rigidbodies[i].collision_group = rb.data[i][0]
                      /\ scene.rigidbodies[i].collision_mask = rb.data[i][4]
                      /\ scene.rigidbodies[i].shape_type = rb.data[i][8]
                      /\ scene.rigidbodies[i].physics_mode = rb.data[i][12]
                      /\ scene.rigidbodies[i].mass = rb.data[i][52]
                 /\ \A i \in 1..Len(scene.joints) :
                      /\ scene.joints[i].rigidbody_a_index = jt.data[i][4]
                      /\ scene.joints[i].rigidbody_b_index = jt.data[i][8]

C10_Witness ==
    /\ pc = "scene_ok"
    /\ input.joints.size = 0
    /\ Len(scene.joints) = 0
    /\ Len(scene.rigidbodies) = 2
    /\ scene.rigidbodies[1] # scene.rigidbodies[2]

\* The create-world call was given a region that is not a direct buffer, or
\* one whose byte size is not a multiple of 4.
RegionRejected == NotDirect \in Range(pending) \/ NotMultipleOf4 \in Range(pending)

\* The core constructor was entered: it has made its engine objects.
ConstructorInvoked == created # {}

\* C11: when the initial transform region is not a direct buffer or its byte
\* size is not a multiple of 4, the create-world call reports an error, the
\* World constructor is never invoked, no World is created and exactly one
\* error is signalled.
C11_RegionValidatedFirst ==
    RegionRejected =>
        /\ ~ConstructorInvoked
        /\ pc = "world_rejected"
        /\ Len(pending) = 1

\* The part of C11 the entry point does keep: a region that is not a direct
\* buffer ends the call with one error and no constructor call.
NotDirectRejected ==
    NotDirect \in Range(pending) =>
        /\ ~ConstructorInvoked
        /\ pc = "world_rejected"
        /\ pending = <<NotDirect>>

\* A World was built and returned although the size error had been raised.
WorldDespiteSizeError == pc = "world_ok" /\ NotMultipleOf4 \in Range(pending)

\* The engine's getWorldTransform call on body k (1-based) happens in this step.
EngineReadsBody(k) == EngineReads /\ lastRead'.rigidbody_index = k - 1

\* C12: a Physics-mode body is not marked kinematic; a transform the engine
\* writes for it is stored as its slot, a read returns what its slot holds,
\* and a read that follows a write, with no change of the buffer from outside
\* in between, returns exactly the transform written.
C12_PhysicsReadWrite ==
    /\ [](\A k \in 1..Len(rigidbodies) :
            IsMode(k, PHYSICS) =>
                /\ ~rigidbodies[k].rigidbody.kinematic
                /\ EngineWroteTo(k) =>
                     SlotOf(transform_buffer, k - 1) = GetOpenGLMatrix(lastWritten[k]))
    /\ [][\A k \in 1..Len(rigidbodies) :
            (IsMode(k, PHYSICS) /\ EngineReadsBody(k)) =>
                /\ lastRead'.transform = SetFromOpenGLMatrix(SlotOf(transform_buffer, k - 1))
                /\ EngineWroteTo(k) => lastRead'.transform = lastWritten[k]]_vars

\* The engine wrote a Physics-mode body and then read it back: the transform
\* read is an engine transform, which no slot held when the Step() began.
C12_Witness ==
    /\ pc = "stepping"
    /\ \E k \in 1..Len(rigidbodies) :
         /\ IsMode(k, PHYSICS)
         /\ EngineWroteTo(k)
         /\ lastRead # NoRead
         /\ lastRead.rigidbody_index = k - 1
         /\ lastRead.transform = lastWritten[k]
         /\ lastRead.transform # SetFromOpenGLMatrix(SlotOf(stepStart, k - 1))

\* The engine has not written body k (1-based) in the Step() last begun.
NotWrittenInStep(k) == lastWritten[k] = NoTransform

\* C13: the k-th bridge of a World belongs to the k-th rigid body of the scene
\* and reads and writes only floats [16k, 16k+16) of the transform buffer:
\* whatever the engine writes through the bridges of other bodies, the slot of
\* a body it has not written is as it was when the Step() began, a read
\* returns the body's own slot and changes nothing, and the buffer keeps its
\* length of 16 * (number of rigid bodies).
C13_BridgeOwnSlotOnly ==
    /\ [](/\ Len(transform_buffer) = 16 * Len(scene.rigidbodies)
          /\ Len(rigidbodies) = Len(scene.rigidbodies)
          /\ \A k \in 1..Len(rigidbodies) :
               /\ rigidbodies[k].motion_state.rigidbody_index = k - 1
               /\ rigidbodies[k].motion_state.class =
                     MotionStateClass(scene.rigidbodies[k].physics_mode)
               /\ (stepStart # <<>> /\ lastWritten # <<>> /\ NotWrittenInStep(k)) =>
                     SlotOf(transform_buffer, k - 1) = SlotOf(stepStart, k - 1))
    /\ [][\A k \in 1..Len(rigidbodies) :
            EngineReadsBody(k) =>
                /\ lastRead'.transform = SetFromOpenGLMatrix(SlotOf(transform_buffer, k - 1))
                /\ transform_buffer' = transform_buffer]_vars

\* In a world of two bodies the engine wrote one, whose slot changed, and
\* not the other.
C13_Witness ==
    /\ Len(rigidbodies) = 2
    /\ stepStart # <<>>
    /\ lastWritten # <<>>
    /\ \E k, j \in 1..Len(rigidbodies) :
         /\ k # j
         /\ EngineWroteTo(k)
         /\ SlotOf(transform_buffer, k - 1) # SlotOf(stepStart, k - 1)
         /\ NotWrittenInStep(j)

====
